---- MODULE Spec2Model ----
(***************************************************************************)
(* mysql-healthcheck: the node status evaluation (DBHandler.GetStatus and  *)
(* its probes, src/database.go) and the HTTP responder that serves it      *)
(* (HTTPServerHandler.serveHTTPHealthCheck, RunStatusCheck).               *)
(*                                                                         *)
(* A database node is described by what each call on the connection handle *)
(* would return right now (NodeStates).  One request is one action: the    *)
(* handler runs one evaluation against the current node state and writes   *)
(* the response.  Each function of the source is an operator returning its *)
(* result together with the calls it issued on the connection handle, in   *)
(* order, and whether it panicked.                                         *)
(*                                                                         *)
(* The specifications share the variables:                                 *)
(*   Spec            one cycle of the daemon serving requests, for every   *)
(*                   config and every node state;                          *)
(*   SpecStandalone  main without -d: one evaluation, then the exit;       *)
(*   SpecDaemon      runDaemon: the reload loop, the signal goroutine and  *)
(*                   the requests in flight (SpecDaemonFair adds the       *)
(*                   scheduling of the goroutines);                        *)
(*   SpecConcurrent  one cycle serving several requests at a time;         *)
(*   SpecConfig      CreateConfig by itself, for every config file;        *)
(*   SpecDSN         BuildDSN by itself, for every connection config.      *)
(*                                                                         *)
(* Definitions named X_<Variant> are X with one plausible defect; they are *)
(* used to show that the properties below depend on X.                     *)
(***************************************************************************)
EXTENDS Integers, Sequences, FiniteSets

VARIABLES
    conn,          \* what BuildDSN finds: the connection keys of the config, the TLS files
    dsn,           \* what BuildDSN returned and registered, when it was called
    configFile,    \* what CreateConfig finds: the working directory and the config file
    config,        \* the *viper.Viper CreateConfig returned, when it was called
    httpPath,      \* config "http.path" of the running cycle (a string, as a sequence of characters)
    h,             \* the DBHandler: availableWhenDonor, availableWhenReadOnly
    customQuery,   \* package variable customQuery
    customResult,  \* package variable customResult
    node,          \* what the database node answers to each call right now
    req,           \* the URL path of the last request, <<>> when none was served yet
    eval,          \* the evaluation run for the last request
    resp,          \* the response to the last request
    proc,          \* the process: running, or exited with an exit code
    main,          \* the goroutine running main: where it is, and the cycle of runDaemon's loop
    shutdown,      \* runDaemon's local variable shutdown
    sigs,          \* the channel sigs: signals notified and not yet received
    sig,           \* the signal goroutine: where it is, the signal it handles, the server it stops
    httpHandler,   \* runDaemon's local variable httpHandler: the cycle that made it, 0 for nil
    server,        \* per cycle, the http.Server of that cycle's HTTPServerHandler
    db,            \* per cycle, the connection handle sql.Open returned
    inflight       \* the requests a handler goroutine is serving

httpVars == <<conn, dsn, configFile, config, httpPath, h, customQuery, customResult, node, req, eval, resp>>

lifecycleVars == <<proc, main, shutdown, sigs, sig, httpHandler, server, db, inflight>>

vars == <<conn, dsn, configFile, config, httpPath, h, customQuery, customResult, node, req, eval, resp,
          proc, main, shutdown, sigs, sig, httpHandler, server, db, inflight>>

(***************************************************************************)
(* Constants of the program                                                *)
(***************************************************************************)
Joining == 1
Donor == 2
Joined == 3
Synced == 4

Available == 1
ReadOnly == 2
NotReady == 3
Unavailable == 4

StatusOK == 200
StatusNotFound == 404
StatusServiceUnavailable == 503

ServerStatuses == {Available, ReadOnly, NotReady, Unavailable}

\* The value of a ServerStatus variable that was never assigned: a panicking
\* evaluation returns nothing.
NoStatus == 0

MsgReady == "MySQL cluster node is ready."
MsgUnavailable == "Could not connect to the MySQL cluster node."
MsgReadOnly == "MySQL cluster node is read-only."
MsgNotReady == "MySQL cluster node is not ready."
MsgUnknown == "Unknown error encountered running health check."

(***************************************************************************)
(* Bounds of the model                                                     *)
(***************************************************************************)
\* wsrep_local_state values the node may report: 0 .. MaxWsrepValue
MaxWsrepValue == 5

\* cycles of runDaemon's loop (one at start, one more per reload)
MaxCycles == 3

\* requests being served at the same time
MaxInflight == 1

(***************************************************************************)
(* The database node, as seen through the connection handle                *)
(***************************************************************************)
\* db.Ping()
PingOutcomes == {"ok", "err"}

\* db.Prepare(wsrepLocalStateQuery), then QueryRow().Scan(&variable, &value):
\* a prepare error, a query or row-scan error, or an integer value
WsrepOutcomes ==
    {[err |-> "prepare", value |-> 0], [err |-> "query", value |-> 0]}
        \cup {[err |-> "none", value |-> v] : v \in 0..MaxWsrepValue}

\* db.Prepare(readOnlyQuery), then QueryRow().Scan(&variable, &value):
\* a prepare error, a query or row-scan error, or a string value
ReadOnlyValues == {"OFF", "ON", "off"}

ReadOnlyOutcomes ==
    {[err |-> "prepare", value |-> ""], [err |-> "query", value |-> ""]}
        \cup {[err |-> "none", value |-> v] : v \in ReadOnlyValues}

\* db.Query(customQuery), then Next() and Scan(&queryResult): a query error,
\* no row, a row that does not scan, or the first column of the first row
CustomValues == {"1", "0"}

CustomOutcomes ==
    {[err |-> e, value |-> ""] : e \in {"query", "norow", "scan"}}
        \cup {[err |-> "none", value |-> v] : v \in CustomValues}

NodeStates ==
    [ping : PingOutcomes, wsrep : WsrepOutcomes, ro : ReadOnlyOutcomes,
     custom : CustomOutcomes]

(***************************************************************************)
(* Configuration                                                           *)
(***************************************************************************)
\* A key the config file does not set
Unset == "<unset>"

ConfigQueries == {Unset, "", "SELECT 1"}
ConfigResults == {Unset, "", "1"}

\* http.path values after CreateConfig, and the URL paths of requests
ConfigPaths == {<<"/">>, <<"/", "a">>, <<"/", "a", "/">>}
RequestPaths == {<<"/">>, <<"/", "a">>, <<"/", "a", "/">>, <<"/", "a", "/", "a">>}

Handlers == [availableWhenDonor : BOOLEAN, availableWhenReadOnly : BOOLEAN]

\* CreateDBHandler: the handler's policy flags, and the package variables
\* customQuery and customResult, which are assigned only when the config sets
\* both keys and otherwise keep the values they had (prevQuery, prevResult).
CreateDBHandler(donor, readonly, cfgQuery, cfgResult, prevQuery, prevResult) ==
    [h |-> [availableWhenDonor |-> donor, availableWhenReadOnly |-> readonly],
     customQuery |-> IF cfgQuery # Unset /\ cfgResult # Unset THEN cfgQuery ELSE prevQuery,
     customResult |-> IF cfgQuery # Unset /\ cfgResult # Unset THEN cfgResult ELSE prevResult]

(***************************************************************************)
(* The probes.  Each returns [ret, panicked, calls]: the value returned,   *)
(* whether the function panicked instead of returning, and the calls it    *)
(* issued on the connection handle and its statements, in order.           *)
(***************************************************************************)
\* isConnected that drops the ping's error
isConnected_IgnoresError(n) ==
    [ret |-> TRUE, panicked |-> FALSE, calls |-> <<"Ping">>]

\* isConnected that pings once more when the ping fails
isConnected_Retries(n) ==
    [ret |-> n.ping = "ok", panicked |-> FALSE,
     calls |-> IF n.ping = "ok" THEN <<"Ping">> ELSE <<"Ping", "Ping">>]

\* isConnected: one ping; an error is logged and gives false.
isConnected(n) ==
    [ret |-> n.ping = "ok", panicked |-> FALSE, calls |-> <<"Ping">>]

\* getWsrepLocalState that reports Synced when the query fails
getWsrepLocalState_SyncedOnError(n) ==
    IF n.wsrep.err = "prepare"
    THEN [ret |-> Joining, panicked |-> FALSE, calls |-> <<"Prepare:wsrep">>]
    ELSE IF n.wsrep.err = "query"
    THEN [ret |-> Synced, panicked |-> FALSE,
          calls |-> <<"Prepare:wsrep", "QueryRow:wsrep", "Close:wsrep">>]
    ELSE [ret |-> n.wsrep.value, panicked |-> FALSE,
          calls |-> <<"Prepare:wsrep", "QueryRow:wsrep", "Close:wsrep">>]

\* getWsrepLocalState: a prepare error returns Joining before any statement
\* exists; after a successful prepare the deferred Close runs on both the
\* scan-error path (Joining) and the success path (the value, cast).
getWsrepLocalState(n) ==
    IF n.wsrep.err = "prepare"
    THEN [ret |-> Joining, panicked |-> FALSE, calls |-> <<"Prepare:wsrep">>]
    ELSE IF n.wsrep.err = "query"
    THEN [ret |-> Joining, panicked |-> FALSE,
          calls |-> <<"Prepare:wsrep", "QueryRow:wsrep", "Close:wsrep">>]
    ELSE [ret |-> n.wsrep.value, panicked |-> FALSE,
          calls |-> <<"Prepare:wsrep", "QueryRow:wsrep", "Close:wsrep">>]

\* isReadOnly with the comparison inverted
isReadOnly_Inverted(n) ==
    IF n.ro.err = "prepare"
    THEN [ret |-> FALSE, panicked |-> TRUE, calls |-> <<"Prepare:read_only">>]
    ELSE LET value == IF n.ro.err = "query" THEN "" ELSE n.ro.value
         IN  [ret |-> (value = "OFF"), panicked |-> FALSE,
              calls |-> <<"Prepare:read_only", "QueryRow:read_only", "Close:read_only">>]

\* isReadOnly: a prepare error is logged and the function goes on with a nil
\* statement: stmtOut.QueryRow() dereferences it and panics.  A query or
\* row-scan error is logged and leaves value empty, which is not "OFF".
isReadOnly(n) ==
    IF n.ro.err = "prepare"
    THEN [ret |-> FALSE, panicked |-> TRUE, calls |-> <<"Prepare:read_only">>]
    ELSE LET value == IF n.ro.err = "query" THEN "" ELSE n.ro.value
         IN  [ret |-> (value # "OFF"), panicked |-> FALSE,
              calls |-> <<"Prepare:read_only", "QueryRow:read_only", "Close:read_only">>]

\* getCustomRequest that closes the result set only on the paths that return
\* from inside the if
getCustomRequest_LeaksOnMismatch(result, n) ==
    IF n.custom.err = "query"
    THEN [ret |-> NotReady, panicked |-> FALSE, calls |-> <<"Query:custom">>]
    ELSE IF n.custom.err = "norow"
    THEN [ret |-> NotReady, panicked |-> FALSE,
          calls |-> <<"Query:custom", "Next:custom", "Close:custom">>]
    ELSE LET queryResult == IF n.custom.err = "scan" THEN "" ELSE n.custom.value
         IN  IF queryResult = result
             THEN [ret |-> Available, panicked |-> FALSE,
                   calls |-> <<"Query:custom", "Next:custom", "Scan:custom", "Close:custom">>]
             ELSE [ret |-> NotReady, panicked |-> FALSE,
                   calls |-> <<"Query:custom", "Next:custom", "Scan:custom">>]

\* getCustomRequest: a query error gives NotReady; with a row, Scan's error is
\* dropped (queryResult stays empty on it) and queryResult is compared with
\* customResult; without a row, NotReady.  The result set is closed on every
\* path after a successful query.
getCustomRequest(result, n) ==
    IF n.custom.err = "query"
    THEN [ret |-> NotReady, panicked |-> FALSE, calls |-> <<"Query:custom">>]
    ELSE IF n.custom.err = "norow"
    THEN [ret |-> NotReady, panicked |-> FALSE,
          calls |-> <<"Query:custom", "Next:custom", "Close:custom">>]
    ELSE LET queryResult == IF n.custom.err = "scan" THEN "" ELSE n.custom.value
         IN  [ret |-> IF queryResult = result THEN Available ELSE NotReady,
              panicked |-> FALSE,
              calls |-> <<"Query:custom", "Next:custom", "Scan:custom", "Close:custom">>]

(***************************************************************************)
(* The evaluation                                                          *)
(***************************************************************************)
\* Eligible that accepts a Donor whatever availableWhenDonor says
Eligible_DonorAlways(hd, state) ==
    state = Synced \/ state = Donor

\* Eligible with >= Joined in place of == Synced
Eligible_FromJoined(hd, state) ==
    state >= Joined \/ (state = Donor /\ hd.availableWhenDonor)

\* Eligible with >= Synced in place of == Synced
Eligible_AtLeastSynced(hd, state) ==
    state >= Synced \/ (state = Donor /\ hd.availableWhenDonor)

\* The condition of GetStatus under which the node's replication state lets
\* it serve: Synced, or Donor when availableWhenDonor is set.
Eligible(hd, state) ==
    state = Synced \/ (state = Donor /\ hd.availableWhenDonor)

\* ReadOnlyBranch that issues the read-only probe whatever
\* availableWhenReadOnly says
ReadOnlyBranch_AlwaysProbes(hd, n, before) ==
    LET r == isReadOnly(n)
    IN  IF r.panicked
        THEN [status |-> NoStatus, panicked |-> TRUE, calls |-> before \o r.calls]
        ELSE [status |-> IF r.ret THEN ReadOnly ELSE Available,
              panicked |-> FALSE, calls |-> before \o r.calls]

\* ReadOnlyBranch that issues the read-only probe first and looks at
\* availableWhenReadOnly afterwards
ReadOnlyBranch_ProbesFirst(hd, n, before) ==
    LET r == isReadOnly(n)
    IN  IF r.panicked
        THEN [status |-> NoStatus, panicked |-> TRUE, calls |-> before \o r.calls]
        ELSE [status |-> IF r.ret /\ ~hd.availableWhenReadOnly THEN ReadOnly ELSE Available,
              panicked |-> FALSE, calls |-> before \o r.calls]

\* The Synced / accepted-Donor branch of GetStatus: the read-only probe is
\* issued only when availableWhenReadOnly is false (&& short-circuits).
ReadOnlyBranch(hd, n, before) ==
    IF ~hd.availableWhenReadOnly
    THEN LET r == isReadOnly(n)
         IN  IF r.panicked
             THEN [status |-> NoStatus, panicked |-> TRUE, calls |-> before \o r.calls]
             ELSE [status |-> IF r.ret THEN ReadOnly ELSE Available,
                   panicked |-> FALSE, calls |-> before \o r.calls]
    ELSE [status |-> Available, panicked |-> FALSE, calls |-> before]

\* GetStatus in which an accepted Donor is Available without the read-only
\* probe
GetStatus_DonorSkipsReadOnly(hd, query, result, n) ==
    LET c == isConnected(n)
    IN  IF c.ret
        THEN IF query # ""
             THEN LET q == getCustomRequest(result, n)
                  IN  [status |-> q.ret, panicked |-> FALSE, calls |-> c.calls \o q.calls]
             ELSE LET w == getWsrepLocalState(n)
                  IN  IF w.ret = Synced
                      THEN ReadOnlyBranch(hd, n, c.calls \o w.calls)
                      ELSE IF w.ret = Donor /\ hd.availableWhenDonor
                      THEN [status |-> Available, panicked |-> FALSE,
                            calls |-> c.calls \o w.calls]
                      ELSE [status |-> NotReady, panicked |-> FALSE,
                            calls |-> c.calls \o w.calls]
        ELSE [status |-> Unavailable, panicked |-> FALSE, calls |-> c.calls]

\* GetStatus: [status, panicked, calls].
GetStatus(hd, query, result, n) ==
    LET c == isConnected(n)
    IN  IF c.ret
        THEN IF query # ""
             THEN LET q == getCustomRequest(result, n)
                  IN  [status |-> q.ret, panicked |-> FALSE, calls |-> c.calls \o q.calls]
             ELSE LET w == getWsrepLocalState(n)
                  IN  IF Eligible(hd, w.ret)
                      THEN ReadOnlyBranch(hd, n, c.calls \o w.calls)
                      ELSE [status |-> NotReady, panicked |-> FALSE,
                            calls |-> c.calls \o w.calls]
        ELSE [status |-> Unavailable, panicked |-> FALSE, calls |-> c.calls]

\* RunStatusCheck without the case for NotReady
RunStatusCheck_NoNotReadyCase(status) ==
    IF status = Available THEN [ready |-> TRUE, msg |-> MsgReady]
    ELSE IF status = Unavailable THEN [ready |-> FALSE, msg |-> MsgUnavailable]
    ELSE IF status = ReadOnly THEN [ready |-> FALSE, msg |-> MsgReadOnly]
    ELSE [ready |-> FALSE, msg |-> MsgUnknown]

\* RunStatusCheck that reports a read-only node ready
RunStatusCheck_ReadOnlyReady(status) ==
    IF status = Available \/ status = ReadOnly THEN [ready |-> TRUE, msg |-> MsgReady]
    ELSE IF status = Unavailable THEN [ready |-> FALSE, msg |-> MsgUnavailable]
    ELSE IF status = NotReady THEN [ready |-> FALSE, msg |-> MsgNotReady]
    ELSE [ready |-> FALSE, msg |-> MsgUnknown]

\* RunStatusCheck: (ready, msg) for a verdict.
RunStatusCheck(status) ==
    IF status = Available THEN [ready |-> TRUE, msg |-> MsgReady]
    ELSE IF status = Unavailable THEN [ready |-> FALSE, msg |-> MsgUnavailable]
    ELSE IF status = ReadOnly THEN [ready |-> FALSE, msg |-> MsgReadOnly]
    ELSE IF status = NotReady THEN [ready |-> FALSE, msg |-> MsgNotReady]
    ELSE [ready |-> FALSE, msg |-> MsgUnknown]

(***************************************************************************)
(* The HTTP responder                                                      *)
(***************************************************************************)
ConnectionClose == <<"Connection", "close">>

\* What http.NotFound sets on the response
PlainTextHeaders ==
    {<<"Content-Type", "text/plain; charset=utf-8">>,
     <<"X-Content-Type-Options", "nosniff">>}

NoEval == [ran |-> FALSE, status |-> NoStatus, panicked |-> FALSE, calls |-> <<>>]

\* No request was served yet
NoResp == [kind |-> "none", status |-> 0, body |-> "", header |-> {}]

\* The handler panicked: the server recovers, logs and drops the connection
\* without a response
Aborted == [kind |-> "aborted", status |-> 0, body |-> "", header |-> {}]

\* http.NotFound
NotFound ==
    [kind |-> "sent", status |-> StatusNotFound,
     body |-> "404 page not found", header |-> PlainTextHeaders]

\* The handler's work once the path matched: one evaluation, then the
\* response, with the headers set before it.
Respond(header, hd, query, result, n) ==
    LET st == GetStatus(hd, query, result, n)
        ev == [ran |-> TRUE, status |-> st.status, panicked |-> st.panicked,
               calls |-> st.calls]
        r == RunStatusCheck(st.status)
    IN  IF st.panicked
        THEN [eval |-> ev, resp |-> Aborted]
        ELSE [eval |-> ev,
              resp |-> [kind |-> "sent",
                        status |-> IF r.ready THEN StatusOK
                                   ELSE StatusServiceUnavailable,
                        body |-> r.msg, header |-> header]]

\* serveHTTPHealthCheck without the path check
serveHTTPHealthCheck_NoPathCheck(path, hd, query, result, n, urlPath) ==
    Respond({ConnectionClose}, hd, query, result, n)

\* serveHTTPHealthCheck that does not add the Connection header
serveHTTPHealthCheck_NoHeader(path, hd, query, result, n, urlPath) ==
    IF urlPath # path
    THEN [eval |-> NoEval, resp |-> NotFound]
    ELSE Respond({}, hd, query, result, n)

\* serveHTTPHealthCheck: [eval, resp] for a request with URL path urlPath.
serveHTTPHealthCheck(path, hd, query, result, n, urlPath) ==
    IF urlPath # path
    THEN [eval |-> NoEval, resp |-> NotFound]
    ELSE Respond({ConnectionClose}, hd, query, result, n)

IsPrefix(p, q) == Len(p) <= Len(q) /\ SubSeq(q, 1, Len(p)) = p

\* The router StartServer builds with router.HandleFunc(path, ...) hands a
\* request to the handler when its URL path is the pattern, or lies in the
\* subtree under a pattern that ends in "/"; any other request is answered
\* by the router and never reaches the handler.
Dispatch(pattern, urlPath) ==
    pattern = urlPath \/ (pattern[Len(pattern)] = "/" /\ IsPrefix(pattern, urlPath))

(***************************************************************************)
(* The process                                                             *)
(***************************************************************************)
\* main returns
ExitOK == 0

\* logrus.Fatal and logrus.Fatalf log and call os.Exit(1)
ExitFatal == 1

\* the exit status of a Go program that ends in a panic nobody recovers
ExitPanic == 2

Running == [state |-> "running", code |-> ExitOK, cause |-> "none"]

Exited(code, cause) == [state |-> "exited", code |-> code, cause |-> cause]

Cycles == 1..MaxCycles

SIGHUP == "SIGHUP"
SIGINT == "SIGINT"
SIGTERM == "SIGTERM"

\* signal.Notify(sigs, syscall.SIGINT, syscall.SIGTERM, syscall.SIGHUP)
Signals == {SIGINT, SIGTERM, SIGHUP}

\* make(chan os.Signal, 1)
SigsCap == 1

\* The signal goroutine blocked in s := <-sigs
Receiving == [pc |-> "recv", cur |-> "none", target |-> 0]

\* The daemon serving in its first cycle: nothing was signalled, no request
\* is being served.
ServingFirstCycle ==
    /\ proc = Running
    /\ main = [pc |-> "serve", cyc |-> 1]
    /\ shutdown = FALSE
    /\ sigs = <<>>
    /\ sig = Receiving
    /\ httpHandler = 1
    /\ server = [c \in Cycles |-> IF c = 1 THEN "listening" ELSE "nil"]
    /\ db = [c \in Cycles |-> IF c = 1 THEN "open" ELSE "none"]
    /\ inflight = {}

(***************************************************************************)
(* CreateConfig                                                            *)
(***************************************************************************)
defaultDatabasePort == 3306
defaultHTTPPort == 5678

\* The keys CreateConfig gives a default
Keys == {"connection.host", "connection.port", "connection.tls.enforced",
         "connection.tls.skip-verify", "http.addr", "http.port", "http.path",
         "options.available_when_donor", "options.available_when_readonly"}

\* config.SetDefault(...)
Defaults ==
    [host |-> "localhost", port |-> defaultDatabasePort,
     tlsEnforced |-> FALSE, tlsSkipVerify |-> FALSE,
     addr |-> "::", httpPort |-> defaultHTTPPort, path |-> <<"/">>,
     donor |-> FALSE, readonly |-> FALSE]

\* What a config file gives to the keys it sets; http.path is one of FilePaths
FileValues ==
    [host |-> "database01", port |-> 3307,
     tlsEnforced |-> TRUE, tlsSkipVerify |-> TRUE,
     addr |-> "127.0.0.1", httpPort |-> 8080,
     donor |-> TRUE, readonly |-> TRUE]

FilePaths == {<<>>, <<"/">>, <<"a">>, <<"/", "a">>}

\* The capacity of the slice []rune(s): the language leaves it open.  It is
\* the length, or more when the runtime takes the slice from a buffer.
RuneCaps == {"exact", "spare"}

\* What CreateConfig finds: whether os.Getwd works, and the config file:
\* none in the search paths, one that does not parse, or one that sets the
\* keys in set.
ConfigFiles ==
    [wd : BOOLEAN, state : {"absent", "unparseable", "read"},
     set : SUBSET Keys, path : FilePaths]

\* config.Get: the value the file sets, else the default
Value(file, key, inFile, default) ==
    IF file.state = "read" /\ key \in file.set THEN inFile ELSE default

\* The leading slash: [panicked, path].  A path other than "/" is converted
\* to runes and its slice [0:1] compared with "/"; when it differs the path
\* gets a "/" in front.  For the empty path the slice expression reaches
\* beyond the length: it panics when the capacity is the length, and gives a
\* zero rune, which is not "/", when there is spare capacity.
LeadingSlash(p, cap) ==
    IF p = <<"/">> THEN [panicked |-> FALSE, path |-> p]
    ELSE IF p = <<>>
    THEN IF cap = "exact"
         THEN [panicked |-> TRUE, path |-> p]
         ELSE [panicked |-> FALSE, path |-> <<"/">> \o p]
    ELSE IF Head(p) # "/"
    THEN [panicked |-> FALSE, path |-> <<"/">> \o p]
    ELSE [panicked |-> FALSE, path |-> p]

\* No config was made
NoConfig == [loaded |-> FALSE, v |-> Defaults]

\* The config once the file is read and the defaults are set: the keys the
\* file sets keep its values, the others get the defaults; http.path gets
\* its leading slash.
Merged(file, cap) ==
    [loaded |-> TRUE,
     v |-> [host |-> Value(file, "connection.host", FileValues.host, Defaults.host),
            port |-> Value(file, "connection.port", FileValues.port, Defaults.port),
            tlsEnforced |-> Value(file, "connection.tls.enforced",
                                  FileValues.tlsEnforced, Defaults.tlsEnforced),
            tlsSkipVerify |-> Value(file, "connection.tls.skip-verify",
                                    FileValues.tlsSkipVerify, Defaults.tlsSkipVerify),
            addr |-> Value(file, "http.addr", FileValues.addr, Defaults.addr),
            httpPort |-> Value(file, "http.port", FileValues.httpPort, Defaults.httpPort),
            path |-> LeadingSlash(Value(file, "http.path", file.path, Defaults.path),
                                 cap).path,
            donor |-> Value(file, "options.available_when_donor",
                            FileValues.donor, Defaults.donor),
            readonly |-> Value(file, "options.available_when_readonly",
                               FileValues.readonly, Defaults.readonly)]]

\* CreateConfig after ReadInConfig: [fatal, panicked, config]
AfterRead(file, cap) ==
    IF LeadingSlash(Value(file, "http.path", file.path, Defaults.path), cap).panicked
    THEN [fatal |-> FALSE, panicked |-> TRUE, config |-> NoConfig]
    ELSE [fatal |-> FALSE, panicked |-> FALSE, config |-> Merged(file, cap)]

\* CreateConfig that goes on with the defaults when the file does not parse
CreateConfig_IgnoresParseError(file, cap) ==
    IF ~file.wd
    THEN [fatal |-> TRUE, panicked |-> FALSE, config |-> NoConfig]
    ELSE AfterRead(file, cap)

\* CreateConfig: [fatal, panicked, config].  A failing os.Getwd is fatal; so
\* is a config file that is found and cannot be read.  Without a config file
\* the defaults apply (a warning is logged).
CreateConfig(file, cap) ==
    IF ~file.wd \/ file.state = "unparseable"
    THEN [fatal |-> TRUE, panicked |-> FALSE, config |-> NoConfig]
    ELSE AfterRead(file, cap)

(***************************************************************************)
(* BuildDSN                                                                *)
(***************************************************************************)
\* What BuildDSN finds.  Of the config: whether connection.unix_socket,
\* connection.user and connection.password are set, connection.tls.required
\* and connection.tls.skip-verify, whether connection.tls.ca is set, and
\* whether connection.tls.cert and connection.tls.key both are.  Of the
\* files: whether the CA file can be read and holds a certificate, whether
\* the certificate and key files load.
Conns ==
    [socket : BOOLEAN, user : BOOLEAN, password : BOOLEAN,
     required : BOOLEAN, skipVerify : BOOLEAN, ca : BOOLEAN, certKey : BOOLEAN,
     caFile : {"ok", "unreadable", "nopem"}, keyPair : {"ok", "unreadable"}]

\* No TLS profile was registered
NoProfile == [registered |-> FALSE, rootCAs |-> FALSE, certificates |-> "none"]

\* buildTLSConfig: [profile, errors].  A CA file that cannot be read is
\* logged and AppendCertsFromPEM is called with what was read: without a
\* certificate in it, "Failed to append PEM." is logged and RootCAs stays
\* unset.  A key pair that does not load is logged and the empty
\* certificate is appended all the same.  A tls.Config is returned on every
\* path.
buildTLSConfig(c) ==
    LET caErrors ==
            IF ~c.ca THEN <<>>
            ELSE IF c.caFile = "unreadable" THEN <<"ReadFile", "Failed to append PEM.">>
            ELSE IF c.caFile = "nopem" THEN <<"Failed to append PEM.">>
            ELSE <<>>
        keyErrors ==
            IF c.certKey /\ c.keyPair = "unreadable" THEN <<"LoadX509KeyPair">> ELSE <<>>
    IN  [profile |->
            [registered |-> FALSE,
             rootCAs |-> c.ca /\ c.caFile = "ok",
             certificates |-> IF ~c.certKey THEN "none"
                              ELSE IF c.keyPair = "ok" THEN "loaded" ELSE "empty"],
         errors |-> caErrors \o keyErrors]

\* BuildDSN was not called
NoDSN == [built |-> FALSE, net |-> "", addr |-> "", user |-> FALSE, passwd |-> FALSE,
          tls |-> "", profile |-> NoProfile, errors |-> <<>>]

\* The tls parameter of the DSN: "true" when TLS is required, then "custom"
\* when a CA is configured, then "skip-verify" when that is set; the later
\* assignment wins.
TLSParam(c, custom) ==
    IF c.skipVerify THEN "skip-verify"
    ELSE IF custom THEN "custom"
    ELSE IF c.required THEN "true"
    ELSE ""

\* BuildDSN: the DSN (its network, address, user, password and tls
\* parameter), the TLS profile registered under "custom", and the errors
\* logged.  With connection.tls.ca set, what buildTLSConfig returns is
\* registered and the DSN names it, whatever buildTLSConfig logged;
\* RegisterTLSConfig refuses reserved names only, "custom" is none.
BuildDSN(c) ==
    LET t == buildTLSConfig(c)
    IN  [built |-> TRUE,
         net |-> IF c.socket THEN "unix" ELSE "tcp",
         addr |-> IF c.socket THEN "connection.unix_socket" ELSE "host:port",
         user |-> c.user, passwd |-> c.password,
         tls |-> TLSParam(c, c.ca),
         profile |-> IF c.ca THEN [t.profile EXCEPT !.registered = TRUE] ELSE NoProfile,
         errors |-> IF c.ca THEN t.errors ELSE <<>>]

\* The specifications that do not follow BuildDSN: a config without
\* connection keys
DSNAside ==
    /\ conn = [socket |-> FALSE, user |-> FALSE, password |-> FALSE,
               required |-> FALSE, skipVerify |-> FALSE, ca |-> FALSE,
               certKey |-> FALSE, caFile |-> "ok", keyPair |-> "ok"]
    /\ dsn = NoDSN

\* The specifications that begin after CreateConfig keep what they read from
\* the config in httpPath and h
ConfigAside ==
    /\ configFile = [wd |-> TRUE, state |-> "absent", set |-> {}, path |-> <<"/">>]
    /\ config = NoConfig
    /\ DSNAside

(***************************************************************************)
(* The state machine                                                       *)
(***************************************************************************)
\* StartServer has run: the config is loaded, the handler created, the router
\* set up; no request was served yet.
Init ==
    /\ ConfigAside
    /\ httpPath \in ConfigPaths
    /\ \E donor \in BOOLEAN, readonly \in BOOLEAN,
          cfgQuery \in ConfigQueries, cfgResult \in ConfigResults :
          LET c == CreateDBHandler(donor, readonly, cfgQuery, cfgResult, "", "")
          IN  /\ h = c.h
              /\ customQuery = c.customQuery
              /\ customResult = c.customResult
    /\ node \in NodeStates
    /\ req = <<>>
    /\ eval = NoEval
    /\ resp = NoResp
    /\ ServingFirstCycle

\* ServeRequest that remembers a NotReady verdict and answers the next
\* request Unavailable without asking the node
ServeRequest_CircuitBreaker ==
    \E p \in RequestPaths :
        /\ Dispatch(httpPath, p)
        /\ LET out == serveHTTPHealthCheck(httpPath, h, customQuery, customResult, node, p)
           IN  /\ req' = p
               /\ IF eval.ran /\ eval.status = NotReady /\ out.eval.ran
                  THEN /\ eval' = [ran |-> TRUE, status |-> Unavailable,
                                   panicked |-> FALSE, calls |-> <<>>]
                       /\ resp' = [kind |-> "sent", status |-> StatusServiceUnavailable,
                                   body |-> MsgUnavailable, header |-> {ConnectionClose}]
                  ELSE /\ eval' = out.eval
                       /\ resp' = out.resp
        /\ UNCHANGED <<conn, dsn, configFile, config, httpPath, h, customQuery, customResult, node>>
        /\ UNCHANGED lifecycleVars

\* A request the router hands to serveHTTPHealthCheck
ServeRequest ==
    \E p \in RequestPaths :
        /\ Dispatch(httpPath, p)
        /\ LET out == serveHTTPHealthCheck(httpPath, h, customQuery, customResult, node, p)
           IN  /\ req' = p
               /\ eval' = out.eval
               /\ resp' = out.resp
        /\ UNCHANGED <<conn, dsn, configFile, config, httpPath, h, customQuery, customResult, node>>
        /\ UNCHANGED lifecycleVars

\* The node changes what it answers to one of the calls; the last response has
\* gone to the client.
NodeChange ==
    /\ \/ \E v \in PingOutcomes : v # node.ping /\ node' = [node EXCEPT !.ping = v]
       \/ \E v \in WsrepOutcomes : v # node.wsrep /\ node' = [node EXCEPT !.wsrep = v]
       \/ \E v \in ReadOnlyOutcomes : v # node.ro /\ node' = [node EXCEPT !.ro = v]
       \/ \E v \in CustomOutcomes : v # node.custom /\ node' = [node EXCEPT !.custom = v]
    /\ req' = <<>>
    /\ eval' = NoEval
    /\ resp' = NoResp
    /\ UNCHANGED <<conn, dsn, configFile, config, httpPath, h, customQuery, customResult>>
    /\ UNCHANGED lifecycleVars

Next == ServeRequest \/ NodeChange

Spec == Init /\ [][Next]_vars

TypeOK ==
    /\ httpPath \in ConfigPaths
    /\ h \in Handlers
    /\ customQuery \in {"", "SELECT 1"}
    /\ customResult \in {"", "1"}
    /\ node \in NodeStates
    /\ req \in RequestPaths \cup {<<>>}
    /\ eval.status \in ServerStatuses \cup {NoStatus}
    /\ resp.kind \in {"none", "sent", "aborted"}

(***************************************************************************)
(* Standalone mode: main without -d runs runStandaloneHealthCheck once     *)
(***************************************************************************)
\* No server, no connection handle, no signal handling
Idle ==
    /\ proc = Running
    /\ shutdown = FALSE
    /\ sigs = <<>>
    /\ sig = Receiving
    /\ httpHandler = 0
    /\ server = [c \in Cycles |-> "nil"]
    /\ db = [c \in Cycles |-> "none"]
    /\ inflight = {}

\* main is about to call runStandaloneHealthCheck; the config variables hold
\* what CreateConfig and CreateDBHandler will load.
InitStandalone ==
    /\ ConfigAside
    /\ httpPath \in ConfigPaths
    /\ \E donor \in BOOLEAN, readonly \in BOOLEAN,
          cfgQuery \in ConfigQueries, cfgResult \in ConfigResults :
          LET c == CreateDBHandler(donor, readonly, cfgQuery, cfgResult, "", "")
          IN  /\ h = c.h
              /\ customQuery = c.customQuery
              /\ customResult = c.customResult
    /\ node \in NodeStates
    /\ req = <<>>
    /\ eval = NoEval
    /\ resp = NoResp
    /\ main = [pc |-> "standalone", cyc |-> 1]
    /\ Idle

\* The exit of the process after one evaluation st, the deferred db.Close
\* having succeeded or not.  main drops the boolean runStandaloneHealthCheck
\* returns and returns itself; a failing db.Close is fatal, also while
\* panicking.
StandaloneExit(st, closeOk) ==
    IF ~closeOk THEN Exited(ExitFatal, "close")
    ELSE IF st.panicked THEN Exited(ExitPanic, "panic")
    ELSE Exited(ExitOK, "return")

\* main calls runStandaloneHealthCheck and returns
runStandaloneHealthCheck ==
    /\ proc = Running
    /\ main.pc = "standalone"
    /\ \E closeOk \in BOOLEAN :
          LET st == GetStatus(h, customQuery, customResult, node)
          IN  /\ eval' = [ran |-> TRUE, status |-> st.status,
                          panicked |-> st.panicked, calls |-> st.calls]
              /\ proc' = StandaloneExit(st, closeOk)
              /\ db' = [db EXCEPT ![1] = IF closeOk THEN "closed" ELSE "closefailed"]
    /\ main' = [main EXCEPT !.pc = "done"]
    /\ UNCHANGED <<conn, dsn, configFile, config, httpPath, h, customQuery, customResult, node, req, resp>>
    /\ UNCHANGED <<shutdown, sigs, sig, httpHandler, server, inflight>>

NextStandalone == runStandaloneHealthCheck

SpecStandalone == InitStandalone /\ [][NextStandalone]_vars

(***************************************************************************)
(* Daemon mode: runDaemon.  Three kinds of goroutine run: main (the loop   *)
(* that builds a cycle, blocks in StartServer, and closes the connection   *)
(* handle), the signal goroutine (receives from sigs and calls StopServer),*)
(* and one handler goroutine per request.  The process ends when main      *)
(* returns, on logrus.Fatal, or on a panic; all goroutines end with it.    *)
(*                                                                         *)
(* server[c] is "nil" until StartServer assigns s.server, "new" until      *)
(* ListenAndServe listens, "listening", "draining" from the moment         *)
(* Shutdown is called on it, and "closed" once Shutdown has returned.      *)
(* ListenAndServe returns as soon as Shutdown is called, not when it ends. *)
(***************************************************************************)
\* The config files a cycle may find: the default one, one that sets
\* http.path and options.available_when_donor, and one that sets http.path,
\* customQuery and customResult
ReloadConfigs ==
    {[path |-> <<"/">>, donor |-> FALSE, readonly |-> FALSE,
      query |-> Unset, result |-> Unset],
     [path |-> <<"/", "a">>, donor |-> TRUE, readonly |-> FALSE,
      query |-> Unset, result |-> Unset],
     [path |-> <<"/", "a", "/">>, donor |-> FALSE, readonly |-> FALSE,
      query |-> "SELECT 1", result |-> "1"]}

\* The node while the daemon runs: Synced and writable, reachable or not; the
\* custom query gives a row with "0"
DaemonNodes ==
    {n \in NodeStates : /\ n.wsrep = [err |-> "none", value |-> Synced]
                        /\ n.ro = [err |-> "none", value |-> "OFF"]
                        /\ n.custom = [err |-> "none", value |-> "0"]}

\* runDaemon was called: httpHandler is nil, shutdown false, the signal
\* goroutine waits, main is at the loop condition.
InitDaemon ==
    /\ ConfigAside
    /\ httpPath = <<"/">>
    /\ h = [availableWhenDonor |-> FALSE, availableWhenReadOnly |-> FALSE]
    /\ customQuery = ""
    /\ customResult = ""
    /\ node \in DaemonNodes
    /\ req = <<>>
    /\ eval = NoEval
    /\ resp = NoResp
    /\ main = [pc |-> "loop", cyc |-> 0]
    /\ Idle

\* for !shutdown: the loop ends and runDaemon and main return (the deferred
\* db.Close calls find their handles closed), or the next cycle begins.
mainLoop ==
    /\ proc = Running
    /\ main.pc = "loop"
    /\ IF shutdown
       THEN /\ proc' = Exited(ExitOK, "return")
            /\ main' = [main EXCEPT !.pc = "done"]
       ELSE /\ main.cyc < MaxCycles
            /\ proc' = proc
            /\ main' = [pc |-> "setup", cyc |-> main.cyc + 1]
    /\ UNCHANGED httpVars
    /\ UNCHANGED <<shutdown, sigs, sig, httpHandler, server, db, inflight>>

\* CreateConfig, BuildDSN, sql.Open, CreateDBHandler, NewHTTPServerHandler:
\* the config is read again, a new handle is opened, httpHandler points to a
\* new handler whose server field is nil.  An unreadable config file or a
\* failing sql.Open is fatal.
mainSetup ==
    /\ proc = Running
    /\ main.pc = "setup"
    /\ \/ /\ \E cfg \in ReloadConfigs :
                LET c == CreateDBHandler(cfg.donor, cfg.readonly, cfg.query,
                                         cfg.result, customQuery, customResult)
                IN  /\ httpPath' = cfg.path
                    /\ h' = c.h
                    /\ customQuery' = c.customQuery
                    /\ customResult' = c.customResult
          /\ db' = [db EXCEPT ![main.cyc] = "open"]
          /\ httpHandler' = main.cyc
          /\ main' = [main EXCEPT !.pc = "start"]
          /\ proc' = proc
       \/ /\ proc' = Exited(ExitFatal, "setup")
          /\ UNCHANGED <<httpPath, h, customQuery, customResult, db, httpHandler, main>>
    /\ UNCHANGED <<conn, dsn, configFile, config, node, req, eval, resp>>
    /\ UNCHANGED <<shutdown, sigs, sig, server, inflight>>

\* StartServer up to s.server = &http.Server{...}
mainStartServer ==
    /\ proc = Running
    /\ main.pc = "start"
    /\ server' = [server EXCEPT ![main.cyc] = "new"]
    /\ main' = [main EXCEPT !.pc = "listen"]
    /\ UNCHANGED httpVars
    /\ UNCHANGED <<proc, shutdown, sigs, sig, httpHandler, db, inflight>>

\* s.server.ListenAndServe(): it returns ErrServerClosed at once when
\* Shutdown was already called on the server; otherwise it listens, or
\* fails to (fatal).
mainListen ==
    /\ proc = Running
    /\ main.pc = "listen"
    /\ IF server[main.cyc] # "new"
       THEN /\ main' = [main EXCEPT !.pc = "close"]
            /\ UNCHANGED <<proc, server>>
       ELSE \/ /\ server' = [server EXCEPT ![main.cyc] = "listening"]
               /\ main' = [main EXCEPT !.pc = "serve"]
               /\ proc' = proc
            \/ /\ proc' = Exited(ExitFatal, "listen")
               /\ UNCHANGED <<main, server>>
    /\ UNCHANGED httpVars
    /\ UNCHANGED <<shutdown, sigs, sig, httpHandler, db, inflight>>

\* ListenAndServe returns ErrServerClosed: Shutdown was called on the server
mainServeReturn ==
    /\ proc = Running
    /\ main.pc = "serve"
    /\ server[main.cyc] \in {"draining", "closed"}
    /\ main' = [main EXCEPT !.pc = "close"]
    /\ UNCHANGED httpVars
    /\ UNCHANGED <<proc, shutdown, sigs, sig, httpHandler, server, db, inflight>>

\* mainClose that does not close the handle
mainClose_LeavesOpen ==
    /\ proc = Running
    /\ main.pc = "close"
    /\ main' = [main EXCEPT !.pc = "loop"]
    /\ UNCHANGED httpVars
    /\ UNCHANGED <<proc, shutdown, sigs, sig, httpHandler, server, db, inflight>>

\* mainClose that drops what db.Close returns
mainClose_IgnoresError ==
    /\ proc = Running
    /\ main.pc = "close"
    /\ \/ db' = [db EXCEPT ![main.cyc] = "closed"]
       \/ db' = [db EXCEPT ![main.cyc] = "closefailed"]
    /\ main' = [main EXCEPT !.pc = "loop"]
    /\ UNCHANGED httpVars
    /\ UNCHANGED <<proc, shutdown, sigs, sig, httpHandler, server, inflight>>

\* err = db.Close(); an error is fatal
mainClose ==
    /\ proc = Running
    /\ main.pc = "close"
    /\ \/ /\ db' = [db EXCEPT ![main.cyc] = "closed"]
          /\ main' = [main EXCEPT !.pc = "loop"]
          /\ proc' = proc
       \/ /\ db' = [db EXCEPT ![main.cyc] = "closefailed"]
          /\ proc' = Exited(ExitFatal, "close")
          /\ main' = main
    /\ UNCHANGED httpVars
    /\ UNCHANGED <<shutdown, sigs, sig, httpHandler, server, inflight>>

\* The operating system delivers a signal: it is put into sigs, or dropped
\* when the channel is full.
Notify ==
    /\ proc = Running
    /\ main.pc # "standalone"
    /\ \E s \in Signals :
          sigs' = IF Len(sigs) < SigsCap THEN Append(sigs, s) ELSE sigs
    /\ UNCHANGED httpVars
    /\ UNCHANGED <<proc, main, shutdown, sig, httpHandler, server, db, inflight>>

\* s := <-sigs and the switch on s, up to the call of StopServer
sigReceive ==
    /\ proc = Running
    /\ sig.pc = "recv"
    /\ sigs # <<>>
    /\ sigs' = Tail(sigs)
    /\ sig' = [pc |-> "call", cur |-> Head(sigs), target |-> 0]
    /\ shutdown' = IF Head(sigs) \in {SIGINT, SIGTERM} THEN TRUE ELSE shutdown
    /\ UNCHANGED httpVars
    /\ UNCHANGED <<proc, main, httpHandler, server, db, inflight>>

\* sigStopServer for which a server that is already shut down is an error
sigStopServer_FatalWhenClosed ==
    /\ proc = Running
    /\ sig.pc = "call"
    /\ IF httpHandler = 0 \/ server[httpHandler] = "nil"
       THEN /\ proc' = Exited(ExitPanic, "panic")
            /\ UNCHANGED <<sig, server>>
       ELSE IF server[httpHandler] = "closed"
       THEN /\ proc' = Exited(ExitFatal, "shutdown")
            /\ UNCHANGED <<sig, server>>
       ELSE /\ server' = [server EXCEPT ![httpHandler] = "draining"]
            /\ sig' = [sig EXCEPT !.pc = "stop", !.target = httpHandler]
            /\ proc' = proc
    /\ UNCHANGED httpVars
    /\ UNCHANGED <<main, shutdown, sigs, httpHandler, db, inflight>>

\* httpHandler.StopServer() up to the call of Shutdown: a nil httpHandler or
\* a nil s.server is dereferenced (panic); otherwise Shutdown begins on the
\* server of the handler httpHandler points to right now.
sigStopServer ==
    /\ proc = Running
    /\ sig.pc = "call"
    /\ IF httpHandler = 0 \/ server[httpHandler] = "nil"
       THEN /\ proc' = Exited(ExitPanic, "panic")
            /\ UNCHANGED <<sig, server>>
       ELSE /\ server' = [server EXCEPT ![httpHandler] =
                              IF @ = "closed" THEN "closed" ELSE "draining"]
            /\ sig' = [sig EXCEPT !.pc = "stop", !.target = httpHandler]
            /\ proc' = proc
    /\ UNCHANGED httpVars
    /\ UNCHANGED <<main, shutdown, sigs, httpHandler, db, inflight>>

Draining(c) == {r \in inflight : r.cyc = c}

\* Shutdown returns nil: no request is being served by the server
sigStopDone ==
    /\ proc = Running
    /\ sig.pc = "stop"
    /\ Draining(sig.target) = {}
    /\ server' = [server EXCEPT ![sig.target] = "closed"]
    /\ sig' = Receiving
    /\ UNCHANGED httpVars
    /\ UNCHANGED <<proc, main, shutdown, sigs, httpHandler, db, inflight>>

\* sigStopTimeout that logs the error and goes on
sigStopTimeout_LogsOnly ==
    /\ proc = Running
    /\ sig.pc = "stop"
    /\ {r \in inflight : r.cyc = sig.target} # {}
    /\ sig' = Receiving
    /\ UNCHANGED httpVars
    /\ UNCHANGED <<proc, main, shutdown, sigs, httpHandler, server, db, inflight>>

\* Shutdown returns the context's error: httpTimeout has passed and a
\* request is still being served; StopServer calls logrus.Fatalf.
sigStopTimeout ==
    /\ proc = Running
    /\ sig.pc = "stop"
    /\ Draining(sig.target) # {}
    /\ proc' = Exited(ExitFatal, "shutdown")
    /\ UNCHANGED httpVars
    /\ UNCHANGED <<main, shutdown, sigs, sig, httpHandler, server, db, inflight>>

\* A handler goroutine serving the request with URL path url, accepted by the
\* server of cycle c.  path and hd are what its HTTPServerHandler holds
\* (s.config's http.path, s.dbHandler's flags) and c tells its connection
\* handle; pc and ping tell where it stands: before the ping, or after it
\* with the ping's outcome.  query and result keep what customQuery and
\* customResult were when the request was accepted.
Handler(i, c, url) ==
    [id |-> i, cyc |-> c, path |-> httpPath, url |-> url, h |-> h,
     pc |-> "ping", ping |-> "none",
     query |-> customQuery, result |-> customResult]

\* A health check request arrives at the listening server; a handler
\* goroutine begins to serve it.
RequestBegin ==
    /\ proc = Running
    /\ main.pc = "serve"
    /\ server[main.cyc] = "listening"
    /\ Cardinality(inflight) < MaxInflight
    /\ LET i == CHOOSE i \in 1..MaxInflight : \A r \in inflight : r.id # i
       IN  inflight' = inflight \cup {Handler(i, main.cyc, httpPath)}
    /\ UNCHANGED httpVars
    /\ UNCHANGED <<proc, main, shutdown, sigs, sig, httpHandler, server, db>>

\* What every call on a closed connection handle gives: an error
ClosedHandle ==
    [ping |-> "err", wsrep |-> [err |-> "prepare", value |-> 0],
     ro |-> [err |-> "prepare", value |-> ""],
     custom |-> [err |-> "query", value |-> ""]]

\* What a handler of cycle c finds behind its connection handle: the node,
\* or an error from every call once the handle is closed
Seen(c) == IF db[c] = "open" THEN node ELSE ClosedHandle

\* The handler found its path and calls RunStatusCheck: GetStatus begins
\* with h.isConnected(), one ping through the handler's own handle.
RequestPing ==
    /\ proc = Running
    /\ \E r \in inflight :
          /\ r.pc = "ping"
          /\ r.url = r.path
          /\ inflight' = (inflight \ {r}) \cup
                {[r EXCEPT !.pc = "probe", !.ping = Seen(r.cyc).ping]}
    /\ UNCHANGED httpVars
    /\ UNCHANGED <<proc, main, shutdown, sigs, sig, httpHandler, server, db>>

\* Finish for a handler that keeps the ping's outcome in a field shared by
\* all requests of the server: it reads what the latest request left there
Finish_SharedPing(r) ==
    LET last == CHOOSE q \in inflight : \A o \in inflight : o.id <= q.id
    IN  serveHTTPHealthCheck(r.path, r.h, customQuery, customResult,
                             [Seen(r.cyc) EXCEPT !.ping = last.ping], r.url)

\* What the handler r computes after its ping: GetStatus goes on with the
\* package variables customQuery and customResult as they are now, the
\* handler's own flags and its own handle.
Finish(r) ==
    serveHTTPHealthCheck(r.path, r.h, customQuery, customResult,
                         [Seen(r.cyc) EXCEPT !.ping = r.ping], r.url)

\* RequestEnd for which a failing ping is fatal
RequestEnd_FatalOnPingError ==
    /\ proc = Running
    /\ \E r \in inflight :
          LET out == Finish(r)
          IN  /\ r.pc = "probe" \/ r.url # r.path
              /\ req' = r.url
              /\ eval' = out.eval
              /\ resp' = out.resp
              /\ inflight' = inflight \ {r}
              /\ proc' = IF out.eval.status = Unavailable
                         THEN Exited(ExitFatal, "ping") ELSE proc
    /\ UNCHANGED <<conn, dsn, configFile, config, httpPath, h, customQuery, customResult, node>>
    /\ UNCHANGED <<main, shutdown, sigs, sig, httpHandler, server, db>>

\* The handler goes on after the ping, or finds another path than its own,
\* and writes the response
RequestEnd ==
    /\ proc = Running
    /\ \E r \in inflight :
          LET out == Finish(r)
          IN  /\ r.pc = "probe" \/ r.url # r.path
              /\ req' = r.url
              /\ eval' = out.eval
              /\ resp' = out.resp
              /\ inflight' = inflight \ {r}
    /\ UNCHANGED <<conn, dsn, configFile, config, httpPath, h, customQuery, customResult, node>>
    /\ UNCHANGED <<proc, main, shutdown, sigs, sig, httpHandler, server, db>>

\* The node becomes unreachable, or reachable again
PingChange ==
    /\ proc = Running
    /\ \E v \in PingOutcomes : v # node.ping /\ node' = [node EXCEPT !.ping = v]
    /\ req' = <<>>
    /\ eval' = NoEval
    /\ resp' = NoResp
    /\ UNCHANGED <<conn, dsn, configFile, config, httpPath, h, customQuery, customResult>>
    /\ UNCHANGED lifecycleVars

mainStep ==
    mainLoop \/ mainSetup \/ mainStartServer \/ mainListen \/ mainServeReturn \/ mainClose

sigStep == sigReceive \/ sigStopServer \/ sigStopDone \/ sigStopTimeout

NextDaemon ==
    \/ mainLoop
    \/ mainSetup
    \/ mainStartServer
    \/ mainListen
    \/ mainServeReturn
    \/ mainClose
    \/ Notify
    \/ sigReceive
    \/ sigStopServer
    \/ sigStopDone
    \/ sigStopTimeout
    \/ RequestBegin
    \/ RequestPing
    \/ RequestEnd
    \/ PingChange

SpecDaemon == InitDaemon /\ [][NextDaemon]_vars

\* The Go scheduler runs every goroutine that can run: main and the signal
\* goroutine take their next step, a handler finishes its request.
SpecDaemonFair ==
    /\ SpecDaemon
    /\ WF_vars(mainStep)
    /\ WF_vars(sigStep)
    /\ WF_vars(RequestPing)
    /\ WF_vars(RequestEnd)

\* The lifecycle states of the daemon
Starting == proc = Running /\ main.pc \in {"setup", "start", "listen"}

Serving == proc = Running /\ main.pc = "serve" /\ server[main.cyc] = "listening"

Stopping ==
    /\ proc = Running
    /\ \/ main.pc = "serve" /\ server[main.cyc] # "listening"
       \/ main.pc = "close"

Terminated == proc.state = "exited"

(***************************************************************************)
(* Properties of one evaluation.  eval and resp describe the last request, *)
(* served against the current node state (NodeChange clears them).         *)
(***************************************************************************)
Issued(call) == \E i \in DOMAIN eval.calls : eval.calls[i] = call

\* A reachable node reporting replication state s
Reports(s) == node.ping = "ok" /\ node.wsrep = [err |-> "none", value |-> s]

\* The node's read_only variable reads v
ReadOnlyIs(v) == node.ro = [err |-> "none", value |-> v]

\* C1: one evaluation returns exactly one of the four verdicts, never raises
\* an error or panic to its caller, and never returns Available when a
\* replication or read-only probe it issued failed.
C1_AlwaysAVerdict ==
    eval.ran =>
        /\ ~eval.panicked
        /\ eval.status \in ServerStatuses
        /\ (eval.status = Available =>
                /\ ~(Issued("Prepare:wsrep") /\ node.wsrep.err # "none")
                /\ ~(Issued("Prepare:read_only") /\ node.ro.err # "none"))

\* C2: when the ping fails the evaluation returns Unavailable and issues no
\* probe at all: the ping is the only call, for every config.
C2_PingFailureUnavailable ==
    (eval.ran /\ node.ping = "err") =>
        /\ ~eval.panicked
        /\ eval.status = Unavailable
        /\ eval.calls = <<"Ping">>

C2_Witness ==
    /\ eval.ran /\ node.ping = "err" /\ eval.status = Unavailable
    /\ customQuery = "" /\ node.wsrep.err = "none" /\ node.wsrep.value = Synced

\* The evaluation runs the replication and read-only probes: no custom
\* query is configured.
NoCustomQuery == customQuery = ""

\* C3 as claimed: a reachable Synced node whose read_only is "OFF" is
\* Available for all four combinations of the flags.
C3_SyncedWritableAvailable_Claimed ==
    (eval.ran /\ Reports(Synced) /\ ReadOnlyIs("OFF")) => eval.status = Available

\* C3: when no custom query is configured, a reachable Synced node whose
\* read_only is "OFF" is Available for all four combinations of the flags.
C3_SyncedWritableAvailable ==
    (eval.ran /\ NoCustomQuery /\ Reports(Synced) /\ ReadOnlyIs("OFF")) =>
        (~eval.panicked /\ eval.status = Available)

C3_Witness ==
    /\ eval.ran /\ NoCustomQuery /\ Reports(Synced) /\ ReadOnlyIs("OFF")
    /\ ~h.availableWhenReadOnly /\ Issued("QueryRow:read_only")
    /\ eval.status = Available

\* The read-only probe succeeds and reads a value other than "OFF"
ReadOnlyFlagTrue == node.ro.err = "none" /\ node.ro.value # "OFF"

\* C4 as claimed: a reachable Synced node whose read-only flag is true is
\* ReadOnly when availableWhenReadOnly is false and Available when it is true,
\* whatever availableWhenDonor is.
C4_SyncedReadOnly_Claimed ==
    (eval.ran /\ Reports(Synced) /\ ReadOnlyFlagTrue) =>
        eval.status = IF h.availableWhenReadOnly THEN Available ELSE ReadOnly

\* C4: when no custom query is configured, a reachable Synced node whose
\* read-only flag is true is ReadOnly when availableWhenReadOnly is false and
\* Available when it is true, whatever availableWhenDonor is.
C4_SyncedReadOnly ==
    (eval.ran /\ NoCustomQuery /\ Reports(Synced) /\ ReadOnlyFlagTrue) =>
        /\ ~eval.panicked
        /\ eval.status = IF h.availableWhenReadOnly THEN Available ELSE ReadOnly

C4_Witness ==
    /\ eval.ran /\ NoCustomQuery /\ Reports(Synced) /\ ReadOnlyIs("ON")
    /\ ~h.availableWhenReadOnly /\ h.availableWhenDonor
    /\ eval.status = ReadOnly

\* C5 as claimed: a reachable Donor node with availableWhenDonor false is
\* NotReady for every read-only value and every availableWhenReadOnly.
C5_DonorNotAccepted_Claimed ==
    (eval.ran /\ Reports(Donor) /\ ~h.availableWhenDonor) => eval.status = NotReady

\* C5: when no custom query is configured, a reachable Donor node with
\* availableWhenDonor false is NotReady for every read-only value and every
\* availableWhenReadOnly.
C5_DonorNotAccepted ==
    (eval.ran /\ NoCustomQuery /\ Reports(Donor) /\ ~h.availableWhenDonor) =>
        (~eval.panicked /\ eval.status = NotReady)

C5_Witness ==
    /\ eval.ran /\ NoCustomQuery /\ Reports(Donor) /\ ~h.availableWhenDonor
    /\ h.availableWhenReadOnly /\ ReadOnlyIs("OFF")
    /\ eval.status = NotReady

\* What the evaluation gives for the same node and config, were the node's
\* replication state Synced
AsIfSynced ==
    GetStatus(h, customQuery, customResult, [node EXCEPT !.wsrep.value = Synced])

\* C6 as claimed: with availableWhenDonor true the verdict for a reachable
\* Donor equals the verdict for Synced, for every read-only value and every
\* availableWhenReadOnly; in particular a Donor whose read_only is "OFF" is
\* Available.
C6_DonorAsSynced_Claimed ==
    (eval.ran /\ Reports(Donor) /\ h.availableWhenDonor) =>
        /\ eval.status = AsIfSynced.status
        /\ eval.panicked = AsIfSynced.panicked
        /\ (ReadOnlyIs("OFF") => eval.status = Available)

\* C6: with availableWhenDonor true the verdict for a reachable Donor equals
\* the verdict for Synced, for every read-only value and every
\* availableWhenReadOnly; in particular, when no custom query is configured, a
\* Donor whose read_only is "OFF" is Available.
C6_DonorAsSynced ==
    (eval.ran /\ Reports(Donor) /\ h.availableWhenDonor) =>
        /\ eval.status = AsIfSynced.status
        /\ eval.panicked = AsIfSynced.panicked
        /\ ((NoCustomQuery /\ ReadOnlyIs("OFF")) => eval.status = Available)

C6_Witness ==
    /\ eval.ran /\ NoCustomQuery /\ Reports(Donor) /\ h.availableWhenDonor
    /\ ~h.availableWhenReadOnly /\ ReadOnlyIs("ON")
    /\ eval.status = ReadOnly

\* C7 as claimed: a reachable node that is Joining or Joined is NotReady for
\* every value of the flags and of read_only.
C7_JoiningJoinedNotReady_Claimed ==
    (eval.ran /\ (Reports(Joining) \/ Reports(Joined))) => eval.status = NotReady

\* C7: when no custom query is configured, a reachable node that is Joining or
\* Joined is NotReady for every value of the flags and of read_only.
C7_JoiningJoinedNotReady ==
    (eval.ran /\ NoCustomQuery /\ (Reports(Joining) \/ Reports(Joined))) =>
        (~eval.panicked /\ eval.status = NotReady)

C7_Witness ==
    /\ eval.ran /\ NoCustomQuery /\ Reports(Joined)
    /\ h.availableWhenDonor /\ h.availableWhenReadOnly /\ ReadOnlyIs("OFF")
    /\ eval.status = NotReady

(***************************************************************************)
(* Properties of the HTTP responder                                        *)
(***************************************************************************)
\* The last request was for the configured health-check path
OnHealthPath == req # <<>> /\ req = httpPath

\* The last request was for another path
OffHealthPath == req # <<>> /\ req # httpPath

Answered(status, body) ==
    resp.kind = "sent" /\ resp.status = status /\ resp.body = body

\* C8: a request to the health-check path is answered 200 with the body
\* "MySQL cluster node is ready." exactly when its evaluation returns
\* Available; for Unavailable, ReadOnly and NotReady it is answered 503 with
\* a non-empty message of its own.
C8_ResponsePerVerdict ==
    OnHealthPath =>
        /\ eval.ran
        /\ Answered(StatusOK, "MySQL cluster node is ready.") <=> eval.status = Available
        /\ eval.status = Unavailable =>
               Answered(StatusServiceUnavailable, "Could not connect to the MySQL cluster node.")
        /\ eval.status = ReadOnly =>
               Answered(StatusServiceUnavailable, "MySQL cluster node is read-only.")
        /\ eval.status = NotReady =>
               Answered(StatusServiceUnavailable, "MySQL cluster node is not ready.")
        /\ resp.kind = "sent" => (resp.status = StatusOK \/ resp.body # "")

C8_Witness ==
    /\ OnHealthPath /\ eval.status = ReadOnly /\ Issued("QueryRow:read_only")
    /\ Answered(StatusServiceUnavailable, "MySQL cluster node is read-only.")

C11_ExitCodeTellsVerdict ==
    (main.pc = "done" /\ eval.status \in ServerStatuses /\ proc.cause = "return") =>
        /\ proc.state = "exited"
        /\ eval.status = Available => proc.code = 0
        /\ eval.status = Unavailable => proc.code = 1
        /\ eval.status = ReadOnly => proc.code = 2
        /\ eval.status = NotReady => proc.code = 3

(***************************************************************************)
(* Daemon mode                                                             *)
(***************************************************************************)
TerminatePending == \E i \in DOMAIN sigs : sigs[i] \in {SIGINT, SIGTERM}

\* C12: whenever SIGINT or SIGTERM is delivered, in any lifecycle state, the
\* daemon eventually stops its server and the process terminates; it never
\* stays in Serving for ever after a terminate signal.
C12_TerminateSignalTerminates == TerminatePending ~> Terminated

\* The process ended on one of the errors the program treats as fatal
FatalExit == Terminated /\ proc.code = ExitFatal

ReloadPending(c) ==
    /\ Serving
    /\ main.cyc = c
    /\ ~shutdown
    /\ sigs = <<SIGHUP>>

\* C13: whenever SIGHUP is delivered to a daemon that is Serving, the server
\* is stopped and the daemon eventually is Serving again, in a later cycle
\* (fresh config, new connection handle); SIGHUP by itself never ends the
\* process: it ends only on a fatal error or after a terminate signal.
C13_ReloadServesAgain ==
    \A c \in 1..(MaxCycles - 1) :
        ReloadPending(c) ~>
            \/ Serving /\ main.cyc > c /\ db[main.cyc] = "open"
            \/ shutdown
            \/ FatalExit

\* C14: when a terminate signal arrives while a request is in flight, the
\* request completes and its response is written before the process exits:
\* a process that ends by returning from main leaves no request unanswered.
C14_InflightCompletesBeforeExit ==
    (Terminated /\ proc.cause = "return") => inflight = {}

\* The daemon is stopping after a terminate signal: shutdown is set and
\* Shutdown was called on the server of the current handler
AlreadyStopping ==
    /\ shutdown
    /\ httpHandler # 0
    /\ server[httpHandler] \in {"draining", "closed"}

\* A step that delivers one more terminating signal, or a step of the signal
\* goroutine handling it: the receive, the call of StopServer, its return
FurtherTerminate ==
    \/ \E s \in {SIGINT, SIGTERM} : sigs' = Append(sigs, s)
    \/ sig.pc = "recv" /\ sigs # <<>> /\ Head(sigs) \in {SIGINT, SIGTERM} /\ sig' # sig
    \/ sig.pc = "call" /\ sig.cur \in {SIGINT, SIGTERM}
          /\ (sig' # sig \/ proc'.cause \in {"panic", "shutdown"})
    \/ sig.pc = "stop" /\ sig.cur \in {SIGINT, SIGTERM}
          /\ server[sig.target] = "closed" /\ sig' # sig

\* C15: a second terminating signal delivered while the daemon is already
\* stopping because of a first one has no additional effect: neither its
\* delivery nor its handling changes the lifecycle (main, the servers), the
\* connection handles or the outcome of the process.
C15_SecondTerminateNoEffect ==
    [][(AlreadyStopping /\ FurtherTerminate) =>
          UNCHANGED <<proc, main, shutdown, httpHandler, server, db, inflight>>]_vars

C15_Witness ==
    /\ AlreadyStopping
    /\ sig.pc = "stop"
    /\ sig.cur = SIGINT
    /\ server[sig.target] = "draining"
    /\ sigs = <<SIGTERM>>

\* Shutdown returns while a request is still being served by the server
ShutdownTimesOut ==
    /\ sig.pc = "stop"
    /\ Draining(sig.target) # {}
    /\ (sig' # sig \/ proc'.cause = "shutdown")

\* C16: when the graceful shutdown does not complete within httpTimeout the
\* process terminates with a non-zero status; shutdown is not retried and
\* the daemon never goes back to Starting or Serving.
C16_ShutdownTimeoutFatal ==
    [][/\ ShutdownTimesOut => (proc'.state = "exited" /\ proc'.code # 0)
       /\ proc.cause = "shutdown" => UNCHANGED <<proc, main, sig, server, db>>]_vars

C16_Witness ==
    /\ Terminated
    /\ proc.cause = "shutdown"
    /\ proc.code = ExitFatal
    /\ Draining(sig.target) # {}

\* C17: when closing the connection handle of a cycle fails, the process
\* terminates with a non-zero status and never goes on to the next cycle.
C17_CloseFailureFatal ==
    \A c \in Cycles :
        db[c] = "closefailed" =>
            /\ Terminated
            /\ proc.code # 0
            /\ main = [pc |-> "close", cyc |-> c]

C17_Witness ==
    /\ db[2] = "closefailed"
    /\ db[1] = "closed"
    /\ Terminated
    /\ ~shutdown

\* The handler r writes its response and ends in this step
Ends(r) == r \in inflight /\ \A q \in inflight' : q.id # r.id

\* C18: a connectivity failure is never fatal to the daemon.  A request whose
\* evaluation gets a ping failure is answered 503 with the Unavailable
\* message and leaves the process, the lifecycle state, the connection
\* handles and the config as they were; a request that finds the node
\* reachable runs its own ping and gets another verdict.
C18_PingFailureNotFatal ==
    [][\A r \in inflight :
          Ends(r) =>
              /\ eval'.ran /\ Head(eval'.calls) = "Ping"
              /\ r.ping = "err" =>
                    /\ eval'.status = Unavailable
                    /\ resp'.kind = "sent"
                    /\ resp'.status = StatusServiceUnavailable
                    /\ resp'.body = MsgUnavailable
                    /\ UNCHANGED <<proc, main, shutdown, httpHandler, server, db>>
                    /\ UNCHANGED <<conn, dsn, configFile, config, httpPath, h, customQuery, customResult>>
                    /\ Serving => Serving'
              /\ r.ping = "ok" => eval'.status # Unavailable]_vars

C18_Witness ==
    /\ Serving
    /\ db[main.cyc] = "open"
    /\ node.ping = "err"
    /\ eval.ran
    /\ eval.status = Unavailable
    /\ resp.status = StatusServiceUnavailable

(***************************************************************************)
(* RunStatusCheck and the replication probe                                *)
(***************************************************************************)
\* C19: RunStatusCheck returns ready = true exactly for Available, and for
\* each of the four verdicts the message of that verdict; the fallback
\* "Unknown error encountered running health check." is produced for no
\* outcome of GetStatus.
C19_StatusCheckCoversVerdicts ==
    /\ resp.body # "Unknown error encountered running health check."
    /\ (eval.ran /\ ~eval.panicked) =>
          LET r == RunStatusCheck(eval.status)
          IN  /\ r.ready <=> eval.status = Available
              /\ eval.status = Available => r.msg = "MySQL cluster node is ready."
              /\ eval.status = Unavailable =>
                    r.msg = "Could not connect to the MySQL cluster node."
              /\ eval.status = ReadOnly => r.msg = "MySQL cluster node is read-only."
              /\ eval.status = NotReady => r.msg = "MySQL cluster node is not ready."
              /\ r.msg # "Unknown error encountered running health check."
              /\ resp.body = r.msg

C19_Witness ==
    /\ eval.ran
    /\ eval.status = NotReady
    /\ resp.body = "MySQL cluster node is not ready."
    /\ Issued("Query:custom")

\* C20: the replication-state probe returns the integer value of the row on
\* success and Joining on every failure (prepare error, query or row-scan
\* error), so a failed replication probe on a reachable node always leads to
\* NotReady.
C20_ReplicationProbeFailure ==
    (eval.ran /\ Issued("Prepare:wsrep")) =>
        LET w == getWsrepLocalState(node)
        IN  /\ ~w.panicked
            /\ node.ping = "ok"
            /\ node.wsrep.err = "none" => w.ret = node.wsrep.value
            /\ node.wsrep.err # "none" =>
                  /\ w.ret = Joining
                  /\ ~eval.panicked
                  /\ eval.status = NotReady

C20_Witness ==
    /\ eval.ran
    /\ Issued("QueryRow:wsrep")
    /\ node.wsrep.err = "query"
    /\ h.availableWhenDonor
    /\ h.availableWhenReadOnly
    /\ eval.status = NotReady

(***************************************************************************)
(* The probes and the order of their calls                                 *)
(***************************************************************************)
\* C21: the read-only probe returns false exactly when the row's value is
\* "OFF", true for any other value, and true, without raising, on every
\* failure: prepare error, query error or row-scan error.
C21_ReadOnlyProbeFailsSafe ==
    (eval.ran /\ Issued("Prepare:read_only")) =>
        LET r == isReadOnly(node)
        IN  /\ ~r.panicked
            /\ ~eval.panicked
            /\ ~r.ret <=> ReadOnlyIs("OFF")
            /\ node.ro.err # "none" => r.ret

Count(call) == Cardinality({i \in DOMAIN eval.calls : eval.calls[i] = call})

\* call1 was issued, and before call2 if that was issued too
Precedes(call1, call2) ==
    \A j \in DOMAIN eval.calls :
        eval.calls[j] = call2 =>
            \E i \in 1..(j - 1) : eval.calls[i] = call1

\* The probes begun by the last evaluation
ProbesBegun == Count("Prepare:wsrep") + Count("Prepare:read_only") + Count("Query:custom")

\* C28: within one evaluation the operations are ordered ping, replication
\* probe, read-only probe: the replication probe is issued only after a
\* successful ping, the read-only probe only after the replication probe
\* returned Synced (or Donor with availableWhenDonor); one evaluation issues
\* exactly one ping and at most two queries, with no retry.
C28_ProbeOrder ==
    eval.ran =>
        /\ Head(eval.calls) = "Ping"
        /\ Count("Ping") = 1
        /\ Issued("Prepare:wsrep") => node.ping = "ok"
        /\ Precedes("Close:wsrep", "Prepare:read_only")
        /\ Issued("Prepare:read_only") =>
              /\ node.wsrep.err = "none"
              /\ \/ node.wsrep.value = Synced
                 \/ node.wsrep.value = Donor /\ h.availableWhenDonor
        /\ ProbesBegun <= 2
        /\ \A i \in DOMAIN eval.calls : Count(eval.calls[i]) = 1

C28_Witness ==
    /\ eval.ran
    /\ eval.calls = <<"Ping", "Prepare:wsrep", "QueryRow:wsrep", "Close:wsrep",
                      "Prepare:read_only", "QueryRow:read_only", "Close:read_only">>
    /\ node.wsrep.value = Donor

\* C30: every query resource a probe acquires (the prepared statement of the
\* replication and read-only probes, the result set of the custom query) is
\* released before the probe returns, on every exit path: success, row-scan
\* error and query error.
C30_ResourcesReleased ==
    eval.ran =>
        /\ (Issued("Prepare:wsrep") /\ node.wsrep.err # "prepare") =>
              /\ Count("Close:wsrep") = 1
              /\ Precedes("Prepare:wsrep", "Close:wsrep")
              /\ Precedes("Close:wsrep", "Prepare:read_only")
        /\ (Issued("Prepare:read_only") /\ node.ro.err # "prepare") =>
              /\ Count("Close:read_only") = 1
              /\ eval.calls[Len(eval.calls)] = "Close:read_only"
        /\ (Issued("Query:custom") /\ node.custom.err # "query") =>
              /\ Count("Close:custom") = 1
              /\ eval.calls[Len(eval.calls)] = "Close:custom"

C30_Witness ==
    /\ eval.ran
    /\ Issued("Scan:custom")
    /\ node.custom = [err |-> "none", value |-> "0"]
    /\ customResult = "1"
    /\ eval.status = NotReady
    /\ Issued("Close:custom")

(***************************************************************************)
(* The reload loop: handles, servers and configs of successive cycles      *)
(***************************************************************************)
\* C25: the connection handle of a cycle is never closed while a request
\* accepted by that cycle's server is still being handled: db.Close happens
\* only after the shutdown of that server has finished draining.
C25_CloseAfterDrain ==
    \A c \in Cycles :
        db[c] \in {"closed", "closefailed"} => Draining(c) = {}

\* The servers that are listening, or still serving a request
Live == {c \in Cycles : server[c] = "listening" \/ Draining(c) # {}}

\* C26: the reload loop is strictly sequential: the setup of cycle N+1 never
\* begins before the shutdown of cycle N's server has completed, so no two
\* servers are serving or draining at the same time.
C26_SequentialReload ==
    /\ Cardinality(Live) <= 1
    /\ \A c \in Cycles : c < main.cyc => Draining(c) = {}

(***************************************************************************)
(* Policy and config across reloads                                        *)
(***************************************************************************)
\* The config file that sets http.path to p
ConfigOf(p) == CHOOSE cfg \in ReloadConfigs : cfg.path = p

\* The policy of a process that has loaded cfg and no config before it: the
\* package variables customQuery and customResult start empty
Loaded(cfg) ==
    CreateDBHandler(cfg.donor, cfg.readonly, cfg.query, cfg.result, "", "")

\* C24: the policy is replaced wholesale on reload: an evaluation served by
\* the current cycle depends only on the config that cycle loaded; no policy
\* value of an earlier cycle (the flags, or a customQuery/customResult the
\* new config no longer sets) influences it.
C24_PolicyReplacedOnReload ==
    [][\A r \in inflight :
          (Ends(r) /\ r.cyc = main.cyc) =>
              LET p == Loaded(ConfigOf(r.path))
                  out == serveHTTPHealthCheck(r.path, p.h, p.customQuery, p.customResult,
                                              [Seen(r.cyc) EXCEPT !.ping = r.ping], r.url)
              IN  eval' = out.eval /\ resp' = out.resp]_vars

\* C27: a handler uses only the connection handle and the config of the cycle
\* whose server accepted its request: what it answers is what its own path,
\* its own flags, the custom query of its own cycle and its own handle give;
\* nothing a later cycle loaded is read.
C27_HandlerUsesOwnCycle ==
    [][\A r \in inflight :
          Ends(r) =>
              LET own == serveHTTPHealthCheck(r.path, r.h, r.query, r.result,
                                              [Seen(r.cyc) EXCEPT !.ping = r.ping], r.url)
              IN  eval' = own.eval /\ resp' = own.resp]_vars

(***************************************************************************)
(* Concurrent requests: the server runs one handler goroutine per request. *)
(* The daemon serves in its first cycle, the node does not change; up to   *)
(* MaxConcurrent requests are in flight and their steps interleave.        *)
(***************************************************************************)
MaxConcurrent == 2

\* The node behind the handle: reachable or not, Synced or Donor or failing
\* the replication probe, writable or read-only
ConcurrentNodes ==
    {n \in NodeStates :
        /\ n.wsrep \in {[err |-> "none", value |-> Synced],
                        [err |-> "none", value |-> Donor],
                        [err |-> "prepare", value |-> 0]}
        /\ n.ro \in {[err |-> "none", value |-> "OFF"], [err |-> "none", value |-> "ON"]}
        /\ n.custom = [err |-> "none", value |-> "1"]}

InitConcurrent ==
    /\ ConfigAside
    /\ httpPath \in ConfigPaths
    /\ \E donor \in BOOLEAN, readonly \in BOOLEAN,
          cfgQuery \in ConfigQueries, cfgResult \in ConfigResults :
          LET c == CreateDBHandler(donor, readonly, cfgQuery, cfgResult, "", "")
          IN  /\ h = c.h
              /\ customQuery = c.customQuery
              /\ customResult = c.customResult
    /\ node \in ConcurrentNodes
    /\ req = <<>>
    /\ eval = NoEval
    /\ resp = NoResp
    /\ ServingFirstCycle

\* The router hands a request to serveHTTPHealthCheck in a new goroutine
\* while other requests are being served
RequestAccept ==
    /\ proc = Running
    /\ main.pc = "serve"
    /\ server[main.cyc] = "listening"
    /\ Cardinality(inflight) < MaxConcurrent
    /\ \E p \in RequestPaths :
          /\ Dispatch(httpPath, p)
          /\ LET i == CHOOSE i \in 1..MaxConcurrent : \A r \in inflight : r.id # i
             IN  inflight' = inflight \cup {Handler(i, main.cyc, p)}
    /\ UNCHANGED httpVars
    /\ UNCHANGED <<proc, main, shutdown, sigs, sig, httpHandler, server, db>>

NextConcurrent == RequestAccept \/ RequestPing \/ RequestEnd

SpecConcurrent == InitConcurrent /\ [][NextConcurrent]_vars

InitConfig ==
    /\ configFile \in ConfigFiles
    /\ config = NoConfig
    /\ DSNAside
    /\ httpPath = <<"/">>
    /\ h = [availableWhenDonor |-> FALSE, availableWhenReadOnly |-> FALSE]
    /\ customQuery = ""
    /\ customResult = ""
    /\ node \in {n \in DaemonNodes : n.ping = "ok"}
    /\ req = <<>>
    /\ eval = NoEval
    /\ resp = NoResp
    /\ main = [pc |-> "config", cyc |-> 1]
    /\ Idle

\* config := CreateConfig(): logrus.Fatal ends the process with status 1, a
\* panic with status 2
LoadConfig ==
    /\ proc = Running
    /\ main.pc = "config"
    /\ \E cap \in RuneCaps :
          LET c == CreateConfig(configFile, cap)
          IN  /\ config' = c.config
              /\ proc' = IF c.fatal THEN Exited(ExitFatal, "config")
                         ELSE IF c.panicked THEN Exited(ExitPanic, "panic")
                         ELSE proc
    /\ main' = [main EXCEPT !.pc = "loaded"]
    /\ UNCHANGED <<conn, dsn, configFile, httpPath, h, customQuery, customResult, node, req, eval, resp>>
    /\ UNCHANGED <<shutdown, sigs, sig, httpHandler, server, db, inflight>>

NextConfig == LoadConfig

SpecConfig == InitConfig /\ [][NextConfig]_vars

\* C23: loading the configuration ends the process (fatal) when a config
\* file is found that cannot be parsed, and succeeds with the defaults when
\* no config file is found: host localhost, port 3306, http.addr "::",
\* http.port 5678, http.path "/", both options false.
C23_ConfigLoad ==
    (main.pc = "loaded" /\ configFile.wd) =>
        /\ configFile.state = "unparseable" =>
              (FatalExit /\ ~config.loaded)
        /\ configFile.state = "absent" =>
              /\ proc = Running
              /\ config.loaded
              /\ config.v.host = "localhost"
              /\ config.v.port = 3306
              /\ config.v.addr = "::"
              /\ config.v.httpPort = 5678
              /\ config.v.path = <<"/">>
              /\ ~config.v.donor
              /\ ~config.v.readonly

C23_Witness ==
    /\ main.pc = "loaded"
    /\ configFile.wd
    /\ configFile.state = "absent"
    /\ config.loaded
    /\ config.v.port = 3306

(***************************************************************************)
(* BuildDSN by itself: the config is loaded and the cycle calls BuildDSN   *)
(***************************************************************************)
InitDSN ==
    /\ conn \in Conns
    /\ dsn = NoDSN
    /\ configFile = [wd |-> TRUE, state |-> "read", set |-> {}, path |-> <<"/">>]
    /\ config = Merged(configFile, "spare")
    /\ httpPath = <<"/">>
    /\ h = [availableWhenDonor |-> FALSE, availableWhenReadOnly |-> FALSE]
    /\ customQuery = ""
    /\ customResult = ""
    /\ node \in {n \in DaemonNodes : n.ping = "ok"}
    /\ req = <<>>
    /\ eval = NoEval
    /\ resp = NoResp
    /\ main = [pc |-> "dsn", cyc |-> 1]
    /\ Idle

\* dsn := BuildDSN(config)
BuildDSNCall ==
    /\ proc = Running
    /\ main.pc = "dsn"
    /\ dsn' = BuildDSN(conn)
    /\ main' = [main EXCEPT !.pc = "open"]
    /\ UNCHANGED <<conn, configFile, config, httpPath, h, customQuery, customResult,
                   node, req, eval, resp>>
    /\ UNCHANGED <<proc, shutdown, sigs, sig, httpHandler, server, db, inflight>>

NextDSN == BuildDSNCall

SpecDSN == InitDSN /\ [][NextDSN]_vars

\* A configured CA, certificate or key file could not be read
TLSFileUnreadable ==
    conn.ca /\ (conn.caFile = "unreadable" \/ (conn.certKey /\ conn.keyPair = "unreadable"))

\* C31: when the configured CA, certificate or key file cannot be read,
\* BuildDSN logs the error, does not register the custom TLS profile, and
\* the DSN it returns does not name the profile "custom".
C31_UnreadableTLSFileSkipsProfile ==
    (dsn.built /\ TLSFileUnreadable) =>
        /\ dsn.errors # <<>>
        /\ ~dsn.profile.registered
        /\ dsn.tls # "custom"

(***************************************************************************)
(* Signals while the daemon is starting                                    *)
(***************************************************************************)
\* The server of cycle c was created after shutdown was set: the signal
\* goroutine has set the flag for the terminate signal it is handling and
\* has called StopServer on the handler of an earlier cycle, so httpHandler
\* was assigned the handler of cycle c, and its server made, after that.
CreatedAfterTerminate(c) ==
    /\ sig.pc = "stop"
    /\ sig.cur \in {SIGINT, SIGTERM}
    /\ sig.target < c
    /\ server[c] # "nil"

\* C32: once a terminate signal was handled (shutdown is true) no new server
\* is started: in no state is shutdown true while a server created after
\* the flag was set is listening.
C32_NoServerAfterTerminate ==
    \A c \in Cycles :
        ~(shutdown /\ CreatedAfterTerminate(c) /\ server[c] = "listening")

\* C33: the signal goroutine never calls the stop operation when no server
\* exists: a signal handled before the first server was created, or on a
\* reload before the new handler's server field is set, dereferences no
\* missing server and does not crash the process.
C33_StopNeverHitsMissingServer ==
    ~(Terminated /\ proc.code = ExitPanic /\ proc.cause = "panic")

(***************************************************************************)
(* Connection handles across reloads                                       *)
(***************************************************************************)
\* The cycles whose connection handle is open
OpenHandles == {c \in Cycles : db[c] = "open"}

\* C34: in daemon mode at most one connection handle is open at any time:
\* the handle a cycle opened is closed by the main loop before the next
\* cycle opens its own, across any number of reloads.
C34_OneHandleOpen ==
    /\ Cardinality(OpenHandles) <= 1
    /\ \A c \in OpenHandles : c = main.cyc
    /\ \A c \in Cycles : c < main.cyc => db[c] \in {"closed", "closefailed"}

\* The second reload: two handles were closed, the third is open
C34_Witness ==
    /\ db[1] = "closed"
    /\ db[2] = "closed"
    /\ db[3] = "open"
    /\ Serving

(***************************************************************************)
(* Policy flags, replication values and the custom query                   *)
(***************************************************************************)
\* The node is reachable and its replication state makes it eligible
EligibleNode ==
    Reports(Synced) \/ (Reports(Donor) /\ h.availableWhenDonor)

\* The evaluation issued the ping and the replication probe, nothing else
OnlyPingAndReplicationProbe ==
    eval.calls = <<"Ping">> \o getWsrepLocalState(node).calls

\* No call of the read-only probe was issued
NoReadOnlyProbe ==
    ~(Issued("Prepare:read_only") \/ Issued("QueryRow:read_only")
        \/ Issued("Close:read_only"))

\* C35 as claimed: with availableWhenReadOnly true the read-only probe is
\* never issued; an evaluation of a reachable, eligible node issues only the
\* ping and the replication probe and returns Available.
C35_ReadOnlyProbeSkipped_Claimed ==
    (eval.ran /\ h.availableWhenReadOnly) =>
        /\ NoReadOnlyProbe
        /\ EligibleNode =>
              /\ OnlyPingAndReplicationProbe
              /\ eval.status = Available
              /\ ~eval.panicked

\* C35: with availableWhenReadOnly true the read-only probe is never issued;
\* when no custom query is configured, an evaluation of a reachable,
\* eligible node issues only the ping and the replication probe and returns
\* Available, whatever the read-only probe would give.
C35_ReadOnlyProbeSkipped ==
    (eval.ran /\ h.availableWhenReadOnly) =>
        /\ NoReadOnlyProbe
        /\ (EligibleNode /\ NoCustomQuery) =>
              /\ OnlyPingAndReplicationProbe
              /\ eval.status = Available
              /\ ~eval.panicked

\* An eligible node whose read-only probe would fail in Prepare was
\* evaluated with availableWhenReadOnly true
C35_Witness ==
    /\ eval.ran
    /\ h.availableWhenReadOnly
    /\ NoCustomQuery
    /\ EligibleNode
    /\ node.ro.err = "prepare"
    /\ eval.status = Available

\* The node is reachable and reports a replication value that is none of
\* the four named states
ReportsUnnamedState ==
    /\ node.ping = "ok"
    /\ node.wsrep.err = "none"
    /\ node.wsrep.value \notin {Joining, Donor, Joined, Synced}

\* C36 as claimed: a replication value outside the four named states
\* reported by a reachable node always yields NotReady; only Synced, or
\* Donor with availableWhenDonor, can lead to Available or ReadOnly.
C36_UnnamedStateNotReady_Claimed ==
    eval.ran =>
        /\ ReportsUnnamedState => (eval.status = NotReady /\ ~eval.panicked)
        /\ eval.status \in {Available, ReadOnly} => EligibleNode

\* C36: when no custom query is configured, a replication value outside the
\* four named states reported by a reachable node always yields NotReady;
\* only Synced, or Donor with availableWhenDonor, can lead to Available or
\* ReadOnly.
C36_UnnamedStateNotReady ==
    (eval.ran /\ NoCustomQuery) =>
        /\ ReportsUnnamedState => (eval.status = NotReady /\ ~eval.panicked)
        /\ eval.status \in {Available, ReadOnly} => EligibleNode

\* A node reporting a value above Synced was evaluated, with both flags set
C36_Witness ==
    /\ eval.ran
    /\ NoCustomQuery
    /\ ReportsUnnamedState
    /\ node.wsrep.value > Synced
    /\ h.availableWhenDonor /\ h.availableWhenReadOnly
    /\ eval.status = NotReady

\* The custom query succeeds and the first column of its first row is
\* customResult
CustomResultMatches ==
    node.custom.err = "none" /\ node.custom.value = customResult

\* C37: with a custom query configured, an evaluation of a reachable node
\* issues only the custom query, neither the replication nor the read-only
\* probe; it returns Available exactly when the query succeeds and the first
\* column of its first row equals customResult, NotReady otherwise (query
\* error, no row, another value), and never ReadOnly.
C37_CustomQueryOnly ==
    (eval.ran /\ customQuery # "" /\ node.ping = "ok") =>
        /\ Issued("Query:custom")
        /\ ~Issued("Prepare:wsrep")
        /\ NoReadOnlyProbe
        /\ eval.status = Available <=> CustomResultMatches
        /\ eval.status \in {Available, NotReady}

(***************************************************************************)
(* The leading slash of http.path                                          *)
(***************************************************************************)
\* The http.path the config file gives, or the default
ConfiguredPath == Value(configFile, "http.path", configFile.path, Defaults.path)

\* CreateConfig was called and did not end the process through logrus.Fatal
ConfigRead ==
    main.pc = "loaded" /\ configFile.wd /\ configFile.state # "unparseable"

====
